---- MODULE Spec2Model ----
(***************************************************************************)
(* Tax extraction, tax classification and the summary fold of the Stripe   *)
(* invoice downloader (src/src/tax/classifier.js,                          *)
(* src/src/export/csvGenerator.js).                                        *)
(*                                                                         *)
(* Representation.  Money is kept in minor units (cents, integers); the    *)
(* code divides by 100 and works on doubles, and for the non-negative      *)
(* amounts modelled here the tests "=== 0" and "> 0" agree on both.        *)
(* A JavaScript string that the code only tests for truthiness or compares *)
(* with a literal is a TLA+ string, "" standing for null/undefined/"".     *)
(* A display name, which the code lower-cases and searches, is a sequence  *)
(* of one-character strings, << >> standing for null/"".                   *)
(***************************************************************************)
EXTENDS Integers, Sequences, FiniteSets, TLC

VARIABLES
  pc,              \* position of the modelled call
  call,            \* arguments of a direct call of classifyTax / extractTaxInfo
  ret,             \* value that call returned
  invoices,        \* generateAccountingCSV: the invoices argument
  companyCountry,  \* generateAccountingCSV: const companyCountry
  idx,             \* generateAccountingCSV: number of invoices the for-loop has processed
  csvData,         \* generateAccountingCSV: detail rows
  countrySummary,  \* generateAccountingCSV: summary buckets, in key insertion order
  csvContent,      \* generateAccountingCSV: lines of invoices_detailed.csv after the header
  summaryContent,  \* generateAccountingCSV: lines of invoices_summary.csv after the header
  profile,         \* main: const profile, what selectProfile / createProfile returned
  config,          \* createProfile: config.profiles, in memory
  configFile,      \* saveConfig: the profiles written to config.json
  profileName,     \* createProfile: const profileName
  secretKey,       \* createProfile: const secretKey
  serverInvoices,  \* the paid invoices of the month that Stripe holds, in list order
  fetched,         \* getStripeInvoices: const invoices
  hasMore,         \* getStripeInvoices: let hasMore
  startingAfter,   \* getStripeInvoices: let startingAfter
  requests,        \* the starting_after of every stripe.invoices.list call made, "" for none
  responses,       \* the result of every stripe.invoices.list call that resolved
  stripeInvoices,  \* main: const stripeInvoices
  downloaded,      \* main: let downloaded
  failed,          \* main: let failed
  attempts         \* the invoices downloadStripeInvoice was called with, in call order

profileVars == <<profile, config, configFile, profileName, secretKey>>

fetchVars == <<serverInvoices, fetched, hasMore, startingAfter, requests, responses>>

downloadVars == <<stripeInvoices, downloaded, failed, attempts>>

vars ==
  <<pc, call, ret, invoices, companyCountry, idx, csvData, countrySummary,
    csvContent, summaryContent, profileVars, fetchVars, downloadVars>>

\* no profile: null
NoProfile == [name |-> "", secretKey |-> << >>, companyCountry |-> ""]

\* the variables of a function that is not running
ProfileIdle ==
  /\ config = {}
  /\ configFile = {}
  /\ profileName = ""
  /\ secretKey = << >>

FetchIdle ==
  /\ serverInvoices = << >>
  /\ fetched = << >>
  /\ hasMore = FALSE
  /\ startingAfter = ""
  /\ requests = << >>
  /\ responses = << >>

DownloadIdle ==
  /\ stripeInvoices = << >>
  /\ downloaded = 0
  /\ failed = 0
  /\ attempts = << >>

foldVars ==
  <<invoices, companyCountry, idx, csvData, countrySummary, csvContent, summaryContent>>

-----------------------------------------------------------------------------
(* Bounds of the model *)

\* largest tax amount (minor units) handed to classifyTax directly
MaxTaxAmount == 2

\* most tax objects (line tax amounts, line tax rates, total tax amounts) on one
\* invoice handed to extractTaxInfo directly
MaxTaxObjects == 2

\* most invoices in the list handed to generateAccountingCSV
MaxInvoices == 3

\* the number of paid invoices Stripe holds for the month, and the page length
\* of stripe.invoices.list (limit: 100 in the code, scaled down)
MaxServerInvoices == 5
PageLimit == 2

\* the number of invoices main has fetched when it asks about the download
MaxFetched == 3

-----------------------------------------------------------------------------
(* Constants of src/src/tax/classifier.js *)

EU_COUNTRIES ==
  {"AT", "BE", "BG", "HR", "CY", "CZ", "DK", "EE", "FI", "FR", "DE", "GR", "HU", "IE",
   "IT", "LV", "LT", "LU", "MT", "NL", "PL", "PT", "RO", "SK", "SI", "ES", "SE"}

STANDARD == "Standard"
REVERSE_CHARGE == "Reverse Charge"
OSS == "OSS"
EXPORT == "Export"
TAX_FREE == "Tax-free"

TAX_TYPES == {STANDARD, REVERSE_CHARGE, OSS, EXPORT, TAX_FREE}

-----------------------------------------------------------------------------
(* String.prototype.toLowerCase and String.prototype.includes on display names *)

UpperCaseLetters ==
  <<"A", "B", "C", "D", "E", "F", "G", "H", "I", "J", "K", "L", "M",
    "N", "O", "P", "Q", "R", "S", "T", "U", "V", "W", "X", "Y", "Z">>

LowerCaseLetters ==
  <<"a", "b", "c", "d", "e", "f", "g", "h", "i", "j", "k", "l", "m",
    "n", "o", "p", "q", "r", "s", "t", "u", "v", "w", "x", "y", "z">>

LowerChar(c) ==
  IF \E k \in 1..26 : UpperCaseLetters[k] = c
  THEN LowerCaseLetters[CHOOSE k \in 1..26 : UpperCaseLetters[k] = c]
  ELSE c

toLowerCase(s) == [k \in 1..Len(s) |-> LowerChar(s[k])]

includes(s, sub) ==
  \E k \in 0..(Len(s) - Len(sub)) : SubSeq(s, k + 1, k + Len(sub)) = sub

\* the three search strings of classifyTax
ReverseChargeText == <<"r", "e", "v", "e", "r", "s", "e", " ", "c", "h", "a", "r", "g", "e">>
ReverseText == <<"r", "e", "v", "e", "r", "s", "e">>
RcText == <<"r", "c">>

-----------------------------------------------------------------------------
(* classifyTax, src/src/tax/classifier.js:51-193 *)

OutcomeFlagDropped(taxInfo, isReverseCharge) ==
  [taxInfo |-> taxInfo, isReverseCharge |-> FALSE]

Outcome(taxInfo, isReverseCharge) ==
  [taxInfo |-> taxInfo, isReverseCharge |-> isReverseCharge]

\* the condition of the first if: an explicit reverse charge indicator
ExplicitReverseChargeNoRc(displayName) ==
  /\ displayName # << >>
  /\ \/ includes(toLowerCase(displayName), ReverseChargeText)
     \/ includes(toLowerCase(displayName), ReverseText)

ExplicitReverseCharge(displayName) ==
  /\ displayName # << >>
  /\ \/ includes(toLowerCase(displayName), ReverseChargeText)
     \/ includes(toLowerCase(displayName), ReverseText)
     \/ includes(toLowerCase(displayName), RcText)

\* the body shared by the "not_subject_to_tax" and "not_collecting" branches
ReasonRuleNoExport(company, customer) ==
  LET isCompanyEU == company \in EU_COUNTRIES
      isCustomerEU == customer \in EU_COUNTRIES
  IN  IF isCompanyEU /\ isCustomerEU /\ customer # company
      THEN Outcome(REVERSE_CHARGE, TRUE)
      ELSE Outcome(TAX_FREE, FALSE)

ReasonRule(company, customer) ==
  LET isCompanyEU == company \in EU_COUNTRIES
      isCustomerEU == customer \in EU_COUNTRIES
  IN  IF isCompanyEU /\ ~isCustomerEU
      THEN Outcome(EXPORT, FALSE)
      ELSE IF isCompanyEU /\ isCustomerEU /\ customer # company
           THEN Outcome(REVERSE_CHARGE, TRUE)
           ELSE Outcome(TAX_FREE, FALSE)

\* the branch customerCountry === "Unknown"
UnknownCountryRuleAlwaysStandard(taxAmount) ==
  Outcome(STANDARD, FALSE)

UnknownCountryRule(taxAmount) ==
  IF taxAmount = 0 THEN Outcome(TAX_FREE, FALSE) ELSE Outcome(STANDARD, FALSE)

\* the branch taxAmount === 0 && customerCountry !== "Unknown"
ZeroTaxRuleSameCountry(company, customer) ==
  LET isCompanyEU == company \in EU_COUNTRIES
      isCustomerEU == customer \in EU_COUNTRIES
  IN  IF isCompanyEU /\ isCustomerEU
      THEN Outcome(REVERSE_CHARGE, TRUE)
      ELSE IF isCompanyEU /\ ~isCustomerEU
           THEN Outcome(EXPORT, FALSE)
           ELSE IF ~isCompanyEU /\ ~isCustomerEU
                THEN Outcome(STANDARD, FALSE)
                ELSE Outcome(TAX_FREE, FALSE)

ZeroTaxRule(company, customer) ==
  LET isCompanyEU == company \in EU_COUNTRIES
      isCustomerEU == customer \in EU_COUNTRIES
  IN  IF isCompanyEU /\ isCustomerEU /\ customer # company
      THEN Outcome(REVERSE_CHARGE, TRUE)
      ELSE IF isCompanyEU /\ ~isCustomerEU
           THEN Outcome(EXPORT, FALSE)
           ELSE IF ~isCompanyEU /\ ~isCustomerEU
                THEN Outcome(STANDARD, FALSE)
                ELSE Outcome(TAX_FREE, FALSE)

\* the branch taxAmount > 0
PositiveTaxRuleOldVersion(company, customer) ==
  LET isCompanyEU == company \in EU_COUNTRIES
      isCustomerEU == customer \in EU_COUNTRIES
  IN  IF isCompanyEU /\ isCustomerEU /\ customer # company
      THEN Outcome(OSS, FALSE)
      ELSE Outcome(STANDARD, FALSE)

PositiveTaxRule(company, customer) ==
  LET isCompanyEU == company \in EU_COUNTRIES
      isCustomerEU == customer \in EU_COUNTRIES
  IN  IF isCompanyEU /\ isCustomerEU /\ customer # company
      THEN Outcome(OSS, FALSE)
      ELSE IF isCompanyEU /\ ~isCustomerEU
           THEN Outcome(EXPORT, FALSE)
           ELSE IF customer = company
                THEN Outcome(STANDARD, FALSE)
                ELSE Outcome(STANDARD, FALSE)

\* let taxRate = taxRateInfo.rate || "0"
RateOrZero(rate) == IF rate = "" THEN "0" ELSE rate

\* "Format tax rate with tax info"
FormatTaxRateNoOss(taxRate, taxInfo, isReverseCharge) ==
  IF isReverseCharge THEN taxRate \o "% (RC)"
  ELSE IF taxInfo = EXPORT THEN taxRate \o "% (Export)"
  ELSE IF taxInfo = TAX_FREE THEN taxRate \o "% (Tax-free)"
  ELSE taxRate \o "%"

FormatTaxRate(taxRate, taxInfo, isReverseCharge) ==
  IF isReverseCharge THEN taxRate \o "% (RC)"
  ELSE IF taxInfo = EXPORT THEN taxRate \o "% (Export)"
  ELSE IF taxInfo = TAX_FREE THEN taxRate \o "% (Tax-free)"
  ELSE IF taxInfo = OSS THEN taxRate \o "% (OSS)"
  ELSE taxRate \o "%"

\* the if / else-if chain that settles taxInfo and isReverseCharge
ClassifyChainUnknownUnclassified(company, customer, taxAmount, taxRateInfo) ==
  IF ExplicitReverseCharge(taxRateInfo.displayName)
  THEN Outcome(REVERSE_CHARGE, TRUE)
  ELSE IF taxRateInfo.taxabilityReason = "not_subject_to_tax"
  THEN ReasonRule(company, customer)
  ELSE IF taxRateInfo.taxabilityReason = "not_collecting"
  THEN ReasonRule(company, customer)
  ELSE IF customer = "Unknown"
  THEN (IF taxAmount = 0 THEN Outcome(TAX_FREE, FALSE) ELSE Outcome("", FALSE))
  ELSE IF taxAmount = 0 /\ customer # "Unknown"
  THEN ZeroTaxRule(company, customer)
  ELSE IF taxAmount > 0
  THEN PositiveTaxRule(company, customer)
  ELSE Outcome(STANDARD, FALSE)

ClassifyChain(company, customer, taxAmount, taxRateInfo) ==
  IF ExplicitReverseCharge(taxRateInfo.displayName)
  THEN Outcome(REVERSE_CHARGE, TRUE)
  ELSE IF taxRateInfo.taxabilityReason = "not_subject_to_tax"
  THEN ReasonRule(company, customer)
  ELSE IF taxRateInfo.taxabilityReason = "not_collecting"
  THEN ReasonRule(company, customer)
  ELSE IF customer = "Unknown"
  THEN UnknownCountryRule(taxAmount)
  ELSE IF taxAmount = 0 /\ customer # "Unknown"
  THEN ZeroTaxRule(company, customer)
  ELSE IF taxAmount > 0
  THEN PositiveTaxRule(company, customer)
  ELSE Outcome(STANDARD, FALSE)   \* the initial values of taxInfo, isReverseCharge

classifyTax(company, customer, taxAmount, taxRateInfo) ==
  LET o == ClassifyChain(company, customer, taxAmount, taxRateInfo)
  IN  [taxInfo |-> o.taxInfo,
       isReverseCharge |-> o.isReverseCharge,
       taxRateDisplay |->
         FormatTaxRate(RateOrZero(taxRateInfo.rate), o.taxInfo, o.isReverseCharge)]

-----------------------------------------------------------------------------
(* extractTaxInfo, src/src/tax/classifier.js:200-360 *)

\* let taxAmount = 0; let taxRate = "0"; let displayName = null; let taxabilityReason = null
InitialTaxInfoStandardRated ==
  [amount |-> 0, rate |-> "0", displayName |-> << >>, taxabilityReason |-> "standard_rated"]

InitialTaxInfo ==
  [amount |-> 0, rate |-> "0", displayName |-> << >>, taxabilityReason |-> ""]

\* Number.prototype.toString on a percentage
PercentageToString(p) == ToString(p)

\* one pass of the loop body over line.tax_amounts (and of the same body over
\* invoice.total_tax_amounts, which adds the amount to its own running total)
TakeRateAndReasonAnyAmount(acc, t) ==
  LET takeRate == t.tax_rate.expanded
  IN  [acc EXCEPT
         !.taxabilityReason =
            IF t.taxability_reason # "" THEN t.taxability_reason ELSE @,
         !.rate =
            IF takeRate /\ t.tax_rate.percentage # 0
            THEN PercentageToString(t.tax_rate.percentage) ELSE @,
         !.displayName =
            IF takeRate /\ t.tax_rate.display_name # << >>
            THEN t.tax_rate.display_name ELSE @]

TakeRateAndReason(acc, t) ==
  LET takeRate == t.tax_rate.expanded /\ t.amount > 0
  IN  [acc EXCEPT
         !.taxabilityReason =
            IF t.taxability_reason # "" THEN t.taxability_reason ELSE @,
         !.rate =
            IF takeRate /\ t.tax_rate.percentage # 0
            THEN PercentageToString(t.tax_rate.percentage) ELSE @,
         !.displayName =
            IF takeRate /\ t.tax_rate.display_name # << >>
            THEN t.tax_rate.display_name ELSE @]

\* for (const taxAmountObj of line.tax_amounts)
RECURSIVE LineTaxAmounts(_, _)
LineTaxAmounts(acc, taxAmounts) ==
  IF taxAmounts = << >> THEN acc
  ELSE LET t == Head(taxAmounts)
           added == [acc EXCEPT !.amount = @ + t.amount]
       IN  LineTaxAmounts(TakeRateAndReason(added, t), Tail(taxAmounts))

\* for (const tax of line.tax_rates): the older format; line.amount * percentage / 100
\* is a whole number of minor units for the amounts modelled
RECURSIVE LineTaxRates(_, _, _)
LineTaxRates(acc, lineAmount, taxRates) ==
  IF taxRates = << >> THEN acc
  ELSE LET tax == Head(taxRates)
           a1 == IF tax.percentage # 0
                 THEN [acc EXCEPT !.rate = PercentageToString(tax.percentage),
                                  !.amount = @ + (lineAmount * tax.percentage) \div 100]
                 ELSE acc
           a2 == IF tax.display_name # << >>
                 THEN [a1 EXCEPT !.displayName = tax.display_name]
                 ELSE a1
       IN  LineTaxRates(a2, lineAmount, Tail(taxRates))

\* Method 1: for (const line of invoice.lines.data)
RECURSIVE LinesLoop(_, _)
LinesLoop(acc, lines) ==
  IF lines = << >> THEN acc
  ELSE LET line == Head(lines)
           a1 == LineTaxAmounts(acc, line.tax_amounts)
           a2 == LineTaxRates(a1, line.amount, line.tax_rates)
       IN  LinesLoop(a2, Tail(lines))

Method1(invoice) == LinesLoop(InitialTaxInfo, invoice.lines)

\* totalTaxFromAmounts
RECURSIVE SumAmounts(_)
SumAmounts(entries) ==
  IF entries = << >> THEN 0 ELSE Head(entries).amount + SumAmounts(Tail(entries))

\* the loop of Method 2 without its running total
RECURSIVE TotalTaxAmounts(_, _)
TotalTaxAmounts(acc, entries) ==
  IF entries = << >> THEN acc
  ELSE TotalTaxAmounts(TakeRateAndReason(acc, Head(entries)), Tail(entries))

\* Method 2: invoice.total_tax_amounts is the authoritative source of the amount
Method2NoForce(acc, invoice) ==
  IF ~invoice.total_tax_amounts_is_null /\ Len(invoice.total_tax_amounts) > 0
  THEN LET totalTaxFromAmounts == SumAmounts(invoice.total_tax_amounts)
           a1 == TotalTaxAmounts(acc, invoice.total_tax_amounts)
       IN  IF totalTaxFromAmounts > 0
           THEN [a1 EXCEPT !.amount = totalTaxFromAmounts]
           ELSE a1
  ELSE acc

Method2KeepLarger(acc, invoice) ==
  IF ~invoice.total_tax_amounts_is_null /\ Len(invoice.total_tax_amounts) > 0
  THEN LET totalTaxFromAmounts == SumAmounts(invoice.total_tax_amounts)
           a1 == TotalTaxAmounts(acc, invoice.total_tax_amounts)
       IN  IF totalTaxFromAmounts > a1.amount
           THEN [a1 EXCEPT !.amount = totalTaxFromAmounts]
           ELSE IF totalTaxFromAmounts > 0 THEN a1
           ELSE [a1 EXCEPT
                   !.amount = 0,
                   !.rate = IF a1.taxabilityReason \in {"not_collecting", "not_subject_to_tax"}
                            THEN "0" ELSE @]
  ELSE acc

Method2(acc, invoice) ==
  IF ~invoice.total_tax_amounts_is_null /\ Len(invoice.total_tax_amounts) > 0
  THEN LET totalTaxFromAmounts == SumAmounts(invoice.total_tax_amounts)
           a1 == TotalTaxAmounts(acc, invoice.total_tax_amounts)
       IN  IF totalTaxFromAmounts > 0
           THEN [a1 EXCEPT !.amount = totalTaxFromAmounts]
           ELSE [a1 EXCEPT
                   !.amount = 0,
                   !.rate = IF a1.taxabilityReason \in {"not_collecting", "not_subject_to_tax"}
                            THEN "0" ELSE @]
  ELSE acc

\* (invoice.amount_paid || invoice.total), in minor units
PaidOrTotal(invoice) ==
  IF invoice.amount_paid # 0 THEN invoice.amount_paid ELSE invoice.total

\* Math.round(x) for x = num / den >= 0: floor(x + 1/2)
TruncDiv(num, den) == num \div den

RoundDiv(num, den) == (2 * num + den) \div (2 * den)

\* Math.round((taxAmount / netAmount) * 100).toString()
CalculatedRate(taxAmount, netAmount) == ToString(RoundDiv(100 * taxAmount, netAmount))

\* Method 3: tax but no rate
Method3Unguarded(acc, invoice) ==
  IF acc.amount > 0 /\ (acc.rate = "0" \/ acc.rate = "")
  THEN LET netAmount == PaidOrTotal(invoice) - acc.amount
       IN  IF netAmount > 0
           THEN [acc EXCEPT !.rate = CalculatedRate(acc.amount, netAmount)]
           ELSE IF netAmount = 0
           THEN [acc EXCEPT !.rate = "Infinity"]
           ELSE [acc EXCEPT !.rate = "-" \o CalculatedRate(acc.amount, 0 - netAmount)]
  ELSE acc

Method3(acc, invoice) ==
  IF acc.amount > 0 /\ (acc.rate = "0" \/ acc.rate = "")
  THEN LET netAmount == PaidOrTotal(invoice) - acc.amount
       IN  IF netAmount > 0
           THEN [acc EXCEPT !.rate = CalculatedRate(acc.amount, netAmount)]
           ELSE acc
  ELSE acc

\* Method 4: fall back to invoice.tax
Method4Always(acc, invoice) ==
  IF invoice.tax # 0 /\ invoice.tax > 0
  THEN LET netAmount == PaidOrTotal(invoice) - invoice.tax
       IN  IF netAmount > 0
           THEN [acc EXCEPT !.amount = invoice.tax,
                            !.rate = CalculatedRate(invoice.tax, netAmount)]
           ELSE [acc EXCEPT !.amount = invoice.tax]
  ELSE acc

Method4(acc, invoice) ==
  IF acc.amount = 0 /\ invoice.tax # 0 /\ invoice.tax > 0
  THEN LET netAmount == PaidOrTotal(invoice) - invoice.tax
       IN  IF netAmount > 0
           THEN [acc EXCEPT !.amount = invoice.tax,
                            !.rate = CalculatedRate(invoice.tax, netAmount)]
           ELSE [acc EXCEPT !.amount = invoice.tax]
  ELSE acc

\* "Final safety check: if tax amount is 0, rate should also be 0"
FinalSafetyCheckMissing(acc) == acc

FinalSafetyCheck(acc) ==
  IF acc.amount = 0 THEN [acc EXCEPT !.rate = "0"] ELSE acc

\* Methods 1 to 4, in order
BeforeFinalCheck(invoice) ==
  Method4(Method3(Method2(Method1(invoice), invoice), invoice), invoice)

extractTaxInfo(invoice) == FinalSafetyCheck(BeforeFinalCheck(invoice))

-----------------------------------------------------------------------------
(* generateAccountingCSV, src/src/export/csvGenerator.js:11-152 *)

\* String.prototype.toUpperCase, and the string a sequence of characters spells
UpperChar(c) ==
  IF \E k \in 1..26 : LowerCaseLetters[k] = c
  THEN UpperCaseLetters[CHOOSE k \in 1..26 : LowerCaseLetters[k] = c]
  ELSE c

toUpperCase(s) == [k \in 1..Len(s) |-> UpperChar(s[k])]

RECURSIVE Join(_)
Join(s) == IF s = << >> THEN "" ELSE Head(s) \o Join(Tail(s))

DigitChars == <<"0", "1", "2", "3", "4", "5", "6", "7", "8", "9">>

\* the decimal digits of a natural number
RECURSIVE Digits(_)
Digits(n) ==
  IF n < 10 THEN <<DigitChars[n + 1]>>
  ELSE Digits(n \div 10) \o <<DigitChars[(n % 10) + 1]>>

\* Number.prototype.toFixed(2) of an amount of c minor units, as its characters
toFixed2(c) ==
  LET a == IF c < 0 THEN 0 - c ELSE c
      frac == a % 100
  IN  (IF c < 0 THEN <<"-">> ELSE << >>) \o Digits(a \div 100) \o <<".">>
        \o <<DigitChars[(frac \div 10) + 1], DigitChars[(frac % 10) + 1]>>

\* invoice.customer_address?.country || customer?.address?.country || "Unknown"
CustomerCountryOf(invoice) ==
  IF invoice.customer_address_country # "" THEN invoice.customer_address_country
  ELSE IF invoice.customer_country # "" THEN invoice.customer_country
  ELSE "Unknown"

\* `${customerCountry}-${taxClassification.taxRateDisplay}-${currency}`
KeyWithoutRate(customerCountry, taxRateDisplay, currency) ==
  customerCountry \o "-" \o currency

SummaryKey(customerCountry, taxRateDisplay, currency) ==
  customerCountry \o "-" \o taxRateDisplay \o "-" \o currency

\* what one pass of the for-loop computes from its invoice before it touches
\* csvData and countrySummary
Processed(company, invoice) ==
  LET customerCountry == CustomerCountryOf(invoice)
      currency == Join(toUpperCase(invoice.currency))
      totalAmount == PaidOrTotal(invoice)
      taxRateInfo == extractTaxInfo(invoice)
      taxAmount == taxRateInfo.amount
      netAmount == totalAmount - taxAmount
      taxClassification == classifyTax(company, customerCountry, taxAmount, taxRateInfo)
  IN  [customerCountry |-> customerCountry,
       currency |-> currency,
       totalAmount |-> totalAmount,
       netAmount |-> netAmount,
       taxAmount |-> taxAmount,
       taxRateDisplay |-> taxClassification.taxRateDisplay,
       taxInfo |-> taxClassification.taxInfo,
       key |-> SummaryKey(customerCountry, taxClassification.taxRateDisplay, currency),
       row |-> [invoiceNumber |-> invoice.number,
                customerCountry |-> customerCountry,
                currency |-> currency,
                grossAmount |-> toFixed2(totalAmount),
                netAmount |-> toFixed2(netAmount),
                taxAmount |-> toFixed2(taxAmount),
                taxRate |-> taxClassification.taxRateDisplay,
                taxInfo |-> taxClassification.taxInfo]]

\* csvData.push({...})
UnshiftRow(rows, row) == <<row>> \o rows

PushRow(rows, row) == Append(rows, row)

\* if (!countrySummary[key]) countrySummary[key] = {...}
NewBucketStandard(p) ==
  [key |-> p.key, country |-> p.customerCountry, taxRate |-> p.taxRateDisplay,
   currency |-> p.currency, taxInfo |-> STANDARD,
   totalGross |-> 0, totalNet |-> 0, totalTax |-> 0, invoiceCount |-> 0]

NewBucket(p) ==
  [key |-> p.key, country |-> p.customerCountry, taxRate |-> p.taxRateDisplay,
   currency |-> p.currency, taxInfo |-> p.taxInfo,
   totalGross |-> 0, totalNet |-> 0, totalTax |-> 0, invoiceCount |-> 0]

HasKey(summary, key) == \E k \in 1..Len(summary) : summary[k].key = key

WithBucketInFront(summary, p) ==
  IF HasKey(summary, p.key) THEN summary ELSE <<NewBucket(p)>> \o summary

WithBucket(summary, p) ==
  IF HasKey(summary, p.key) THEN summary ELSE Append(summary, NewBucket(p))

\* countrySummary[key].totalGross += totalAmount; ... ; invoiceCount++
AccumulateOverwrite(bucket, p) ==
  [bucket EXCEPT !.totalGross = p.totalAmount,
                 !.totalNet = p.netAmount,
                 !.totalTax = p.taxAmount,
                 !.invoiceCount = @ + 1]

Accumulate(bucket, p) ==
  [bucket EXCEPT !.totalGross = @ + p.totalAmount,
                 !.totalNet = @ + p.netAmount,
                 !.totalTax = @ + p.taxAmount,
                 !.invoiceCount = @ + 1]

SummaryAfterCreationOnly(summary, p) ==
  LET s1 == WithBucket(summary, p)
  IN  IF HasKey(summary, p.key) THEN summary
      ELSE [k \in 1..Len(s1) |-> IF s1[k].key = p.key THEN Accumulate(s1[k], p) ELSE s1[k]]

SummaryAfter(summary, p) ==
  LET s1 == WithBucket(summary, p)
  IN  [k \in 1..Len(s1) |-> IF s1[k].key = p.key THEN Accumulate(s1[k], p) ELSE s1[k]]

\* one line of invoices_detailed.csv: the columns of a row that are modelled
\* (customerName and date are not), in the order of the template
DetailLine(row) ==
  <<row.invoiceNumber, row.customerCountry, row.currency, row.grossAmount,
    row.netAmount, row.taxAmount, row.taxRate, row.taxInfo>>

\* csvData.forEach((row) => { csvContent += ... })
DetailedContent(rows) == [k \in 1..Len(rows) |-> DetailLine(rows[k])]

\* one line of invoices_summary.csv
SummaryLine(summary) ==
  <<summary.country, summary.taxRate, summary.currency, summary.taxInfo,
    toFixed2(summary.totalGross), toFixed2(summary.totalNet),
    toFixed2(summary.totalTax), ToString(summary.invoiceCount)>>

\* Object.values(countrySummary).forEach(...): the keys all hold a "-" and a
\* "%", none is an array index, so the values come in insertion order
RenderedSummary(summary) == [k \in 1..Len(summary) |-> SummaryLine(summary[k])]

\* const companyCountry = invoices.length > 0 ? invoices[0].account_country : "Unknown"
CompanyCountryOf(invs) ==
  IF Len(invs) > 0 THEN invs[1].account_country ELSE "Unknown"

\* the summary the whole loop leaves for a list of invoices
RECURSIVE FoldSummary(_, _, _)
FoldSummary(company, invs, summary) ==
  IF invs = << >> THEN summary
  ELSE FoldSummary(company, Tail(invs), SummaryAfter(summary, Processed(company, Head(invs))))

SummaryOf(invs) == FoldSummary(CompanyCountryOf(invs), invs, << >>)

-----------------------------------------------------------------------------
(* Inputs *)

NameVAT == <<"V", "A", "T">>
NameMwSt == <<"M", "w", "S", "t">>
NameReverseCharge ==
  <<"R", "e", "v", "e", "r", "s", "e", " ", "C", "h", "a", "r", "g", "e">>
NameReversed == <<"R", "E", "V", "E", "R", "S", "E", "D">>
NameEuRc == <<"E", "U", " ", "R", "C">>

DisplayNames == {<< >>, NameVAT, NameMwSt, NameReverseCharge, NameReversed, NameEuRc}

TaxabilityReasons == {"", "standard_rated", "not_subject_to_tax", "not_collecting"}

CompanyCountries == {"DE", "FR", "US", "Unknown"}
CustomerCountries == {"DE", "FR", "NL", "US", "Unknown"}

\* the tax information classifyTax is handed: what extractTaxInfo can return,
\* so a zero amount comes with the rate "0" (classifier.js:349-352); "" is a
\* missing rate (csvGenerator.js:64 provides for one next to a nonzero amount)
TaxRateInfos ==
  {info \in [amount : 0..MaxTaxAmount,
             rate : {"", "0", "19", "21"},
             displayName : DisplayNames,
             taxabilityReason : TaxabilityReasons] :
     info.amount = 0 => info.rate = "0"}

\* classifyTax(companyCountry, customerCountry, taxAmount, taxRateInfo) with
\* taxAmount = taxRateInfo.amount, as csvGenerator.js:53 and 74-79 call it
ClassifyCalls ==
  [companyCountry : CompanyCountries,
   customerCountry : CustomerCountries,
   taxRateInfo : TaxRateInfos]

\* a tax_rate that was not expanded into an object (an id string, or null)
UnexpandedRate == [expanded |-> FALSE, percentage |-> 0, display_name |-> << >>]

TaxRateObjects ==
  {UnexpandedRate,
   [expanded |-> TRUE, percentage |-> 19, display_name |-> NameVAT],
   [expanded |-> TRUE, percentage |-> 21, display_name |-> NameEuRc]}

\* entries of line.tax_amounts
LineTaxAmountEntries ==
  [amount : {0, 1900}, taxability_reason : {"", "not_collecting"}, tax_rate : TaxRateObjects]

\* entries of invoice.total_tax_amounts
TotalTaxAmountEntries ==
  [amount : {0, 700}, taxability_reason : TaxabilityReasons, tax_rate : TaxRateObjects]

\* entries of line.tax_rates (the older format)
LineTaxRateEntries ==
  {[percentage |-> 19, display_name |-> NameVAT],
   [percentage |-> 0, display_name |-> NameEuRc]}

\* the tax objects of an invoice, each with the place it sits at
TaxObjects ==
  [where : {"line"}, entry : LineTaxAmountEntries]
    \cup [where : {"total"}, entry : TotalTaxAmountEntries]
    \cup [where : {"rate"}, entry : LineTaxRateEntries]

SeqsUpTo(S, n) == UNION {[1..k -> S] : k \in 0..n}

\* invoice.lines.data: one line of 100.00 for each line tax object, in order
RECURSIVE LinesOf(_)
LinesOf(objs) ==
  IF objs = << >> THEN << >>
  ELSE LET o == Head(objs)
       IN  (IF o.where = "line"
            THEN <<[amount |-> 10000, tax_amounts |-> <<o.entry>>, tax_rates |-> << >>]>>
            ELSE IF o.where = "rate"
            THEN <<[amount |-> 10000, tax_amounts |-> << >>, tax_rates |-> <<o.entry>>]>>
            ELSE << >>) \o LinesOf(Tail(objs))

\* invoice.total_tax_amounts: the total tax objects, in order
RECURSIVE TotalsOf(_)
TotalsOf(objs) ==
  IF objs = << >> THEN << >>
  ELSE (IF Head(objs).where = "total" THEN <<Head(objs).entry>> ELSE << >>)
         \o TotalsOf(Tail(objs))

\* amount_paid, total and tax of an invoice: paid in full without / with invoice
\* level tax, nothing paid yet, and a total that is all tax
InvoiceAmounts ==
  {[amount_paid |-> 11900, total |-> 11900, tax |-> 0],
   [amount_paid |-> 11900, total |-> 11900, tax |-> 1900],
   [amount_paid |-> 0, total |-> 11900, tax |-> 1900],
   [amount_paid |-> 1900, total |-> 1900, tax |-> 1900]}

Invoice(number, account, address, customer, currency, amounts, objs) ==
  [number |-> number,
   account_country |-> account,
   customer_address_country |-> address,
   customer_country |-> customer,
   currency |-> currency,
   amount_paid |-> amounts.amount_paid,
   total |-> amounts.total,
   tax |-> amounts.tax,
   lines |-> LinesOf(objs),
   total_tax_amounts |-> TotalsOf(objs),
   total_tax_amounts_is_null |-> FALSE]

CurrencyEur == <<"e", "u", "r">>
CurrencyUsd == <<"u", "s", "d">>

\* the invoices extractTaxInfo is handed directly: total_tax_amounts is the
\* array of the total tax objects, or null instead of an empty array
ExtractInvoicesWithArray ==
  {Invoice("in_1", "DE", "FR", "", CurrencyEur, a, objs) :
     a \in InvoiceAmounts, objs \in SeqsUpTo(TaxObjects, MaxTaxObjects)}

ExtractInvoices ==
  ExtractInvoicesWithArray
    \cup {[i EXCEPT !.total_tax_amounts_is_null = TRUE] :
            i \in {j \in ExtractInvoicesWithArray : j.total_tax_amounts = << >>}}

-----------------------------------------------------------------------------
(* Direct calls of classifyTax *)

NoCall == [none |-> TRUE]
NoReturn == [none |-> TRUE]

InitClassify ==
  /\ pc = "classifyTax"
  /\ call \in ClassifyCalls
  /\ ret = NoReturn
  /\ invoices = << >>
  /\ companyCountry = ""
  /\ idx = 0
  /\ csvData = << >>
  /\ countrySummary = << >>
  /\ csvContent = << >>
  /\ summaryContent = << >>
  /\ profile = NoProfile
  /\ ProfileIdle
  /\ FetchIdle
  /\ DownloadIdle

ClassifyTaxCall ==
  /\ pc = "classifyTax"
  /\ ret' = classifyTax(call.companyCountry, call.customerCountry,
                        call.taxRateInfo.amount, call.taxRateInfo)
  /\ pc' = "classified"
  /\ UNCHANGED <<call, foldVars, profileVars, fetchVars, downloadVars>>

NextClassify == ClassifyTaxCall

SpecClassify == InitClassify /\ [][NextClassify]_vars

-----------------------------------------------------------------------------
(* Direct calls of extractTaxInfo *)

InitExtract ==
  /\ pc = "extractTaxInfo"
  /\ call \in [invoice : ExtractInvoices]
  /\ ret = NoReturn
  /\ invoices = << >>
  /\ companyCountry = ""
  /\ idx = 0
  /\ csvData = << >>
  /\ countrySummary = << >>
  /\ csvContent = << >>
  /\ summaryContent = << >>
  /\ profile = NoProfile
  /\ ProfileIdle
  /\ FetchIdle
  /\ DownloadIdle

ExtractTaxInfoCall ==
  /\ pc = "extractTaxInfo"
  /\ ret' = extractTaxInfo(call.invoice)
  /\ pc' = "extracted"
  /\ UNCHANGED <<call, foldVars, profileVars, fetchVars, downloadVars>>

NextExtract == ExtractTaxInfoCall

SpecExtract == InitExtract /\ [][NextExtract]_vars

-----------------------------------------------------------------------------
(* A run of generateAccountingCSV *)

\* the tax objects of the invoices of a run: no tax at all, and 21 % on the line
\* confirmed by the invoice's total
NoTaxObjects == << >>

TaxedObjects ==
  LET e == [amount |-> 2100, taxability_reason |-> "standard_rated",
            tax_rate |-> [expanded |-> TRUE, percentage |-> 21, display_name |-> NameVAT]]
  IN  <<[where |-> "line", entry |-> e], [where |-> "total", entry |-> e]>>

RunAmounts ==
  {[amount_paid |-> 10000, total |-> 10000, tax |-> 0],
   [amount_paid |-> 12100, total |-> 12100, tax |-> 2100]}

RunInvoice(account, address, currency, amounts) ==
  Invoice("in_" \o account \o address \o Join(currency) \o ToString(amounts.total),
          account, address, "", currency, amounts,
          IF amounts.tax > 0 THEN TaxedObjects ELSE NoTaxObjects)

\* the profile main selected before it calls generateAccountingCSV (index.js:27):
\* the company country entered for it is DE
RunProfile ==
  [name |-> "My Business", secretKey |-> <<"s", "k", "_", "1">>, companyCountry |-> "DE"]

\* invoices of a German account, and two that name a US account
RunInvoices ==
  {RunInvoice("DE", address, currency, amounts) :
     address \in {"NL", ""}, currency \in {CurrencyEur, CurrencyUsd}, amounts \in RunAmounts}
    \cup {RunInvoice("US", "NL", CurrencyEur, amounts) : amounts \in RunAmounts}

Init ==
  /\ pc = "start"
  /\ call = NoCall
  /\ ret = NoReturn
  /\ invoices \in SeqsUpTo(RunInvoices, MaxInvoices)
  /\ companyCountry = ""
  /\ idx = 0
  /\ csvData = << >>
  /\ countrySummary = << >>
  /\ csvContent = << >>
  /\ summaryContent = << >>
  /\ profile = RunProfile
  /\ ProfileIdle
  /\ FetchIdle
  /\ DownloadIdle

\* lines 13-26: the empty collections and the company country
Start ==
  /\ pc = "start"
  /\ companyCountry' = CompanyCountryOf(invoices)
  /\ csvData' = << >>
  /\ countrySummary' = << >>
  /\ idx' = 0
  /\ pc' = "loop"
  /\ UNCHANGED <<call, ret, invoices, csvContent, summaryContent>>
  /\ UNCHANGED <<profileVars, fetchVars, downloadVars>>

\* lines 29-114: one pass of for (const invoice of invoices)
ProcessInvoice ==
  /\ pc = "loop"
  /\ idx < Len(invoices)
  /\ LET p == Processed(companyCountry, invoices[idx + 1])
     IN  /\ csvData' = PushRow(csvData, p.row)
         /\ countrySummary' = SummaryAfter(countrySummary, p)
  /\ idx' = idx + 1
  /\ UNCHANGED <<pc, call, ret, invoices, companyCountry, csvContent, summaryContent>>
  /\ UNCHANGED <<profileVars, fetchVars, downloadVars>>

\* lines 116-147: the loop is over, the two files are rendered and written
WriteCSV ==
  /\ pc = "loop"
  /\ idx = Len(invoices)
  /\ csvContent' = DetailedContent(csvData)
  /\ summaryContent' = RenderedSummary(countrySummary)
  /\ pc' = "done"
  /\ UNCHANGED <<call, ret, invoices, companyCountry, idx, csvData, countrySummary>>
  /\ UNCHANGED <<profileVars, fetchVars, downloadVars>>

Next == Start \/ ProcessInvoice \/ WriteCSV

Spec == Init /\ [][Next]_vars

-----------------------------------------------------------------------------
(* createProfile, src/src/config/profileManager.js:41-78.  config.profiles  *)
(* is the set of its profiles, no two with the same name; a recursive call  *)
(* "return await createProfile(config)" is the return to the first prompt.  *)

\* String.prototype.startsWith
startsWith(s, prefix) ==
  Len(s) >= Len(prefix) /\ SubSeq(s, 1, Len(prefix)) = prefix

SkPrefix == <<"s", "k", "_">>

\* the negation of (!secretKey || !secretKey.startsWith("sk_"))
AnySecretKey(key) == key # << >>

ValidSecretKey(key) == key # << >> /\ startsWith(key, SkPrefix)

\* overwrite.toLowerCase() !== "y" && overwrite.toLowerCase() !== "yes", negated
SaysYes(answer) ==
  toLowerCase(answer) = <<"y">> \/ toLowerCase(answer) = <<"y", "e", "s">>

\* config.profiles[profileName]
HasProfile(profiles, name) == \E p \in profiles : p.name = name

\* config.profiles[profileName] = profile
WithProfile(profiles, p) == {q \in profiles : q.name # p.name} \cup {p}

\* the answers typed at the prompts
ProfileNames == {"My Business", "Client A"}

SecretKeys ==
  {<< >>,
   <<"s", "k">>,
   <<"p", "k", "_", "1">>,
   <<"x", "s", "k", "_">>,
   <<"s", "k", "_">>,
   <<"s", "k", "_", "1">>}

OverwriteAnswers == {<<"y">>, <<"Y", "e", "s">>, <<"n">>, << >>}

CountryAnswers == {<<"d", "e">>, <<"a", "t">>, <<"U", "S">>}

\* the profiles config.json can hold when createProfile starts
StoredProfiles ==
  {[name |-> "My Business", secretKey |-> <<"s", "k", "_", "1">>, companyCountry |-> "DE"],
   [name |-> "Client A", secretKey |-> <<"s", "k", "_">>, companyCountry |-> "US"]}

InitProfile ==
  /\ pc = "createProfile"
  /\ call = NoCall
  /\ ret = NoReturn
  /\ invoices = << >>
  /\ companyCountry = ""
  /\ idx = 0
  /\ csvData = << >>
  /\ countrySummary = << >>
  /\ csvContent = << >>
  /\ summaryContent = << >>
  /\ profile = NoProfile
  /\ config \in SUBSET StoredProfiles
  /\ configFile = config
  /\ profileName = ""
  /\ secretKey = << >>
  /\ FetchIdle
  /\ DownloadIdle

\* lines 42-52: the profile name is answered
AnswerProfileName ==
  /\ pc = "createProfile"
  /\ \E name \in ProfileNames :
        /\ profileName' = name
        /\ pc' = IF HasProfile(config, name) THEN "overwrite" ELSE "secretKey"
  /\ secretKey' = << >>
  /\ UNCHANGED <<call, ret, foldVars, profile, config, configFile, fetchVars, downloadVars>>

\* lines 46-51: the question whether to overwrite is answered
AnswerOverwrite ==
  /\ pc = "overwrite"
  /\ \E answer \in OverwriteAnswers :
        pc' = IF SaysYes(answer) THEN "secretKey" ELSE "createProfile"
  /\ UNCHANGED <<call, ret, foldVars, profileVars, fetchVars, downloadVars>>

\* lines 54-59: the secret key is answered
AnswerSecretKey ==
  /\ pc = "secretKey"
  /\ \E key \in SecretKeys :
        /\ secretKey' = key
        /\ pc' = IF ValidSecretKey(key) THEN "companyCountry" ELSE "createProfile"
  /\ UNCHANGED <<call, ret, foldVars, profile, config, configFile, profileName,
                 fetchVars, downloadVars>>

\* lines 62-77: the company country is answered, the profile is put into
\* config.profiles and saveConfig writes the file or throws
AnswerCompanyCountry ==
  /\ pc = "companyCountry"
  /\ \E answer \in CountryAnswers, written \in BOOLEAN :
        LET created == [name |-> profileName,
                        secretKey |-> secretKey,
                        companyCountry |-> Join(toUpperCase(answer))]
        IN  /\ config' = WithProfile(config, created)
            /\ IF written
               THEN /\ configFile' = config'
                    /\ profile' = created
                    /\ pc' = "returned"
               ELSE /\ UNCHANGED <<configFile, profile>>
                    /\ pc' = "thrown"
  /\ UNCHANGED <<call, ret, foldVars, profileName, secretKey, fetchVars, downloadVars>>

NextProfile ==
  AnswerProfileName \/ AnswerOverwrite \/ AnswerSecretKey \/ AnswerCompanyCountry

SpecProfile == InitProfile /\ [][NextProfile]_vars

-----------------------------------------------------------------------------
(* getStripeInvoices, src/src/stripe/client.js:61-114.  An invoice is the   *)
(* record of its id; Stripe answers a list request with the next page of    *)
(* the invoices it holds after the cursor, or the request fails.            *)

\* the position of the invoice with this id in a list, 0 when there is none
PositionOf(list, id) ==
  IF \E k \in 1..Len(list) : list[k].id = id
  THEN CHOOSE k \in 1..Len(list) : list[k].id = id
  ELSE 0

\* what stripe.invoices.list resolves to: at most limit invoices after
\* starting_after ("" when the parameter is not sent), and whether more follow
ListResult(list, starting_after, limit) ==
  LET from == IF starting_after = "" THEN 0 ELSE PositionOf(list, starting_after)
      rest == SubSeq(list, from + 1, Len(list))
  IN  [data |-> SubSeq(rest, 1, IF Len(rest) < limit THEN Len(rest) ELSE limit),
       has_more |-> Len(rest) > limit]

\* invoices.push(...result.data)
PushOnlyLast(list, data) ==
  IF data = << >> THEN list ELSE Append(list, data[Len(data)])

PushAll(list, data) == list \o data

\* if (hasMore && result.data.length > 0) startingAfter = result.data[result.data.length - 1].id
CursorAtFirst(current, result) ==
  IF result.has_more /\ Len(result.data) > 0
  THEN result.data[1].id
  ELSE current

NextCursor(current, result) ==
  IF result.has_more /\ Len(result.data) > 0
  THEN result.data[Len(result.data)].id
  ELSE current

\* the invoices Stripe can hold: up to MaxServerInvoices, each id once
InvoiceIds == {"in_" \o ToString(k) : k \in 1..MaxServerInvoices}

ServerLists ==
  {list \in SeqsUpTo([id : InvoiceIds], MaxServerInvoices) :
     \A i, j \in 1..Len(list) : list[i] = list[j] => i = j}

\* lines 72-74
InitFetch ==
  /\ pc = "getStripeInvoices"
  /\ call = NoCall
  /\ ret = NoReturn
  /\ invoices = << >>
  /\ companyCountry = ""
  /\ idx = 0
  /\ csvData = << >>
  /\ countrySummary = << >>
  /\ csvContent = << >>
  /\ summaryContent = << >>
  /\ profile = NoProfile
  /\ ProfileIdle
  /\ serverInvoices \in ServerLists
  /\ fetched = << >>
  /\ hasMore = TRUE
  /\ startingAfter = ""
  /\ requests = << >>
  /\ responses = << >>
  /\ DownloadIdle

\* lines 76-105: one pass of while (hasMore) whose request resolves
ListResolves ==
  /\ pc = "getStripeInvoices"
  /\ hasMore
  /\ LET result == ListResult(serverInvoices, startingAfter, PageLimit)
     IN  /\ requests' = Append(requests, startingAfter)
         /\ responses' = Append(responses, result)
         /\ fetched' = PushAll(fetched, result.data)
         /\ hasMore' = result.has_more
         /\ startingAfter' = NextCursor(startingAfter, result)
  /\ UNCHANGED <<pc, call, ret, foldVars, profileVars, serverInvoices, downloadVars>>

\* lines 106-109: the request fails and the error is thrown on
ListRejects ==
  /\ pc = "getStripeInvoices"
  /\ hasMore
  /\ requests' = Append(requests, startingAfter)
  /\ ret' = [thrown |-> TRUE]
  /\ pc' = "thrown"
  /\ UNCHANGED <<call, foldVars, profileVars, serverInvoices, fetched, hasMore,
                 startingAfter, responses, downloadVars>>

\* lines 112-113: the loop is over
ReturnInvoices ==
  /\ pc = "getStripeInvoices"
  /\ ~hasMore
  /\ ret' = [value |-> fetched]
  /\ pc' = "returned"
  /\ UNCHANGED <<call, foldVars, profileVars, fetchVars, downloadVars>>

NextFetch == ListResolves \/ ListRejects \/ ReturnInvoices

SpecFetch == InitFetch /\ [][NextFetch]_vars

-----------------------------------------------------------------------------
(* The download of main, src/index.js:84-108, with downloadStripeInvoice,   *)
(* src/src/stripe/client.js:122-163.  An invoice is the record of its id    *)
(* and of whether it has an invoice_pdf URL.                                *)

\* what happens to the download of a PDF: the response is ok and the file is
\* written, the response is not ok, fetch rejects, or fs.writeFile rejects
DownloadOutcomes == {"ok", "notOk", "fetchRejects", "writeRejects"}

\* the value downloadStripeInvoice resolves to: every throw inside its try is
\* caught and turned into false
downloadStripeInvoiceAnyInvoice(invoice, outcome) == outcome = "ok"

downloadStripeInvoice(invoice, outcome) ==
  IF invoice.invoice_pdf THEN outcome = "ok" ELSE FALSE

\* confirmDownload.toLowerCase() === "y" || confirmDownload.toLowerCase() === "yes"
ConfirmAnswers == {<<"y">>, <<"Y", "E", "S">>, <<"n">>, << >>}

\* the invoices fetched: main returns before the question when there are none
FetchedInvoices ==
  SeqsUpTo([id : {"in_1", "in_2"}, invoice_pdf : BOOLEAN], MaxFetched) \ {<< >>}

InitDownload ==
  /\ pc = "confirmDownload"
  /\ call = NoCall
  /\ ret = NoReturn
  /\ invoices = << >>
  /\ companyCountry = ""
  /\ idx = 0
  /\ csvData = << >>
  /\ countrySummary = << >>
  /\ csvContent = << >>
  /\ summaryContent = << >>
  /\ profile = RunProfile
  /\ ProfileIdle
  /\ FetchIdle
  /\ stripeInvoices \in FetchedInvoices
  /\ downloaded = 0
  /\ failed = 0
  /\ attempts = << >>

\* lines 84-95 and 106-108: the question is answered
AnswerConfirmDownload ==
  /\ pc = "confirmDownload"
  /\ \E answer \in ConfirmAnswers :
        pc' = IF SaysYes(answer) THEN "downloading" ELSE "downloadCancelled"
  /\ downloaded' = 0
  /\ failed' = 0
  /\ UNCHANGED <<call, ret, foldVars, profileVars, fetchVars, stripeInvoices, attempts>>

\* lines 98-105: one pass of for (const invoice of stripeInvoices)
DownloadInvoice ==
  /\ pc = "downloading"
  /\ Len(attempts) < Len(stripeInvoices)
  /\ \E outcome \in DownloadOutcomes :
        LET invoice == stripeInvoices[Len(attempts) + 1]
            success == downloadStripeInvoice(invoice, outcome)
        IN  /\ attempts' = Append(attempts, [invoice |-> invoice, outcome |-> outcome,
                                                success |-> success])
            /\ downloaded' = IF success THEN downloaded + 1 ELSE downloaded
            /\ failed' = IF success THEN failed ELSE failed + 1
  /\ UNCHANGED <<pc, call, ret, foldVars, profileVars, fetchVars, stripeInvoices>>

\* line 105: the loop is over
DownloadsEnd ==
  /\ pc = "downloading"
  /\ Len(attempts) = Len(stripeInvoices)
  /\ pc' = "downloadsDone"
  /\ UNCHANGED <<call, ret, foldVars, profileVars, fetchVars, downloadVars>>

NextDownload == AnswerConfirmDownload \/ DownloadInvoice \/ DownloadsEnd

SpecDownload == InitDownload /\ [][NextDownload]_vars

-----------------------------------------------------------------------------
(* Properties of classifyTax, checked under SpecClassify *)

Classified == pc = "classified"

\* the arguments of the call, and the rate its label shows
ArgInfo == call.taxRateInfo
ArgTaxAmount == call.taxRateInfo.amount
ArgShownRate == IF ArgInfo.rate = "" THEN "0" ELSE ArgInfo.rate

\* rule 1 matches: the display name, lower-cased, contains one of the three texts
Rule1Matches ==
  \E text \in {ReverseChargeText, ReverseText, RcText} :
     includes(toLowerCase(ArgInfo.displayName), text)

\* rule 2 matches
Rule2Matches ==
  ~Rule1Matches /\ ArgInfo.taxabilityReason \in {"not_subject_to_tax", "not_collecting"}

\* rule 3 matches
Rule3Matches ==
  ~Rule1Matches /\ ~Rule2Matches /\ call.customerCountry = "Unknown"

NoRuleUpTo3Matches == ~Rule1Matches /\ ~Rule2Matches /\ ~Rule3Matches

CompanyInEU == call.companyCountry \in EU_COUNTRIES
CustomerInEU == call.customerCountry \in EU_COUNTRIES
CrossBorderEU ==
  CompanyInEU /\ CustomerInEU /\ call.customerCountry # call.companyCountry

\* C1: for every company country, customer country (EU, non-EU or "Unknown"),
\* tax amount >= 0 and extraction, classifyTax returns a result whose taxInfo is
\* one of the five categories Standard, Reverse Charge, OSS, Export, Tax-free.
C1_Totality ==
  Classified =>
    /\ ret.taxInfo \in {"Standard", "Reverse Charge", "OSS", "Export", "Tax-free"}
    /\ ret.isReverseCharge \in BOOLEAN

\* an unknown customer with tax, which no geography branch covers, is classified
C1_Witness ==
  /\ Classified
  /\ call.customerCountry = "Unknown"
  /\ ArgTaxAmount > 0
  /\ ~Rule1Matches /\ ~Rule2Matches
  /\ ret.taxInfo = "Standard"

\* C6: whenever the display name, compared case-insensitively, contains
\* "reverse charge", "reverse" or "rc", the result is Reverse Charge with
\* isReverseCharge = true, whatever the countries, the tax amount and the
\* taxability reason are.
C6_Rule1TopPriority ==
  (Classified /\ Rule1Matches) =>
    (ret.taxInfo = "Reverse Charge" /\ ret.isReverseCharge = TRUE)

\* "EU RC" on an export with tax and the reason not_collecting is still Reverse Charge
C6_Witness ==
  /\ Classified
  /\ ArgInfo.displayName = NameEuRc
  /\ ArgInfo.taxabilityReason = "not_collecting"
  /\ call.companyCountry = "DE" /\ call.customerCountry = "US"
  /\ ArgTaxAmount > 0
  /\ ret.taxInfo = "Reverse Charge" /\ ret.isReverseCharge

\* C7: when rule 1 does not match and the taxability reason is
\* "not_subject_to_tax" or "not_collecting", the category depends on geography
\* alone: company in EU and customer not in EU (also "Unknown") is Export;
\* company and customer in different EU countries is Reverse Charge with
\* isReverseCharge = true; everything else is Tax-free.
C7_Rule2Geography ==
  (Classified /\ Rule2Matches) =>
    IF CompanyInEU /\ ~CustomerInEU
    THEN ret.taxInfo = "Export" /\ ~ret.isReverseCharge
    ELSE IF CrossBorderEU
    THEN ret.taxInfo = "Reverse Charge" /\ ret.isReverseCharge
    ELSE ret.taxInfo = "Tax-free" /\ ~ret.isReverseCharge

\* an EU company, an unknown customer, tax charged, reason not_collecting: Export
C7_Witness ==
  /\ Classified
  /\ Rule2Matches
  /\ call.companyCountry = "DE" /\ call.customerCountry = "Unknown"
  /\ ArgTaxAmount > 0
  /\ ret.taxInfo = "Export"

\* C8: when rules 1 and 2 do not match and the customer country is "Unknown",
\* the result is Tax-free with the label "<rate>% (Tax-free)" if the tax amount
\* is 0 and Standard with the label "<rate>%" otherwise, for every company country.
C8_Rule3UnknownCustomer ==
  (Classified /\ Rule3Matches) =>
    /\ ~ret.isReverseCharge
    /\ IF ArgTaxAmount = 0
       THEN ret.taxInfo = "Tax-free" /\ ret.taxRateDisplay = ArgShownRate \o "% (Tax-free)"
       ELSE ret.taxInfo = "Standard" /\ ret.taxRateDisplay = ArgShownRate \o "%"

\* an EU company, an unknown customer and no tax: "0% (Tax-free)", not Export
C8_Witness ==
  /\ Classified
  /\ Rule3Matches
  /\ call.companyCountry = "DE"
  /\ ArgTaxAmount = 0
  /\ ret.taxInfo = "Tax-free" /\ ret.taxRateDisplay = "0% (Tax-free)"

\* C9: when rules 1-3 do not match and the tax amount is 0, company and customer
\* in different EU countries is Reverse Charge (isReverseCharge = true, label
\* "0% (RC)"); company in EU and customer outside is Export (label
\* "0% (Export)"); neither in EU is Standard; every remaining case (same EU
\* country, or non-EU company with EU customer) is Tax-free.
C9_Rule4ZeroTax ==
  (Classified /\ NoRuleUpTo3Matches /\ ArgTaxAmount = 0) =>
    IF CrossBorderEU
    THEN ret.taxInfo = "Reverse Charge" /\ ret.isReverseCharge
           /\ ret.taxRateDisplay = "0% (RC)"
    ELSE IF CompanyInEU /\ ~CustomerInEU
    THEN ret.taxInfo = "Export" /\ ~ret.isReverseCharge
           /\ ret.taxRateDisplay = "0% (Export)"
    ELSE IF ~CompanyInEU /\ ~CustomerInEU
    THEN ret.taxInfo = "Standard" /\ ~ret.isReverseCharge
    ELSE ret.taxInfo = "Tax-free" /\ ~ret.isReverseCharge

\* the same EU country on both sides and no tax: Tax-free
C9_Witness ==
  /\ Classified
  /\ NoRuleUpTo3Matches
  /\ ArgTaxAmount = 0
  /\ call.companyCountry = "DE" /\ call.customerCountry = "DE"
  /\ ret.taxInfo = "Tax-free" /\ ~ret.isReverseCharge

\* C10: when rules 1-3 do not match and the tax amount is > 0, company and
\* customer in different EU countries is OSS (label "<rate>% (OSS)"); company
\* in EU and customer outside is Export although tax is charged; every other
\* case, the domestic one included, is Standard with the label "<rate>%".
C10_Rule5PositiveTax ==
  (Classified /\ NoRuleUpTo3Matches /\ ArgTaxAmount > 0) =>
    /\ ~ret.isReverseCharge
    /\ IF CrossBorderEU
       THEN ret.taxInfo = "OSS" /\ ret.taxRateDisplay = ArgShownRate \o "% (OSS)"
       ELSE IF CompanyInEU /\ ~CustomerInEU
       THEN ret.taxInfo = "Export"
       ELSE ret.taxInfo = "Standard" /\ ret.taxRateDisplay = ArgShownRate \o "%"

\* an EU company charging 19 % to a US customer: Export
C10_Witness ==
  /\ Classified
  /\ NoRuleUpTo3Matches
  /\ ArgTaxAmount > 0
  /\ ArgInfo.rate = "19"
  /\ call.companyCountry = "DE" /\ call.customerCountry = "US"
  /\ ret.taxInfo = "Export"

\* the suffix the label of a result carries
LabelSuffix ==
  IF ret.isReverseCharge THEN " (RC)"
  ELSE IF ret.taxInfo = "Export" THEN " (Export)"
  ELSE IF ret.taxInfo = "Tax-free" THEN " (Tax-free)"
  ELSE IF ret.taxInfo = "OSS" THEN " (OSS)"
  ELSE ""

\* C11: for every result, taxRateDisplay is "<rate>%" followed by " (RC)" when
\* isReverseCharge is true, otherwise by " (Export)", " (Tax-free)" or " (OSS)"
\* when taxInfo is Export, Tax-free or OSS, and by nothing when taxInfo is
\* Standard; <rate> is the extraction's rate, or "0" when it is missing or empty.
C11_RateLabel ==
  Classified =>
    /\ ret.taxRateDisplay = (ArgShownRate \o "%") \o LabelSuffix
    /\ (ret.taxInfo = "Standard") => (ret.taxRateDisplay = ArgShownRate \o "%")

\* a cross-border EU sale with tax and no rate: "0% (OSS)"
C11_Witness ==
  /\ Classified
  /\ ArgInfo.rate = ""
  /\ ArgTaxAmount > 0
  /\ ret.taxInfo = "OSS"
  /\ ret.taxRateDisplay = "0% (OSS)"

\* C23: in every result of classifyTax, isReverseCharge is true if and only if
\* taxInfo is Reverse Charge.
C23_FlagIffReverseCharge ==
  Classified => (ret.isReverseCharge <=> ret.taxInfo = "Reverse Charge")

\* a reverse charge by geography alone: no tax, EU to another EU country, no
\* display name and no taxability reason
C23_Witness ==
  /\ Classified
  /\ NoRuleUpTo3Matches
  /\ ArgTaxAmount = 0
  /\ CrossBorderEU
  /\ ret.isReverseCharge
  /\ ret.taxInfo = "Reverse Charge"

-----------------------------------------------------------------------------
(* Properties of extractTaxInfo, checked under SpecExtract *)

Extracted == pc = "extracted"

\* the invoice carries tax data on its lines
HasLineTaxData ==
  \E k \in 1..Len(call.invoice.lines) :
     \/ call.invoice.lines[k].tax_amounts # << >>
     \/ call.invoice.lines[k].tax_rates # << >>

\* the sum the lines alone give (Method 1)
LineItemSum == Method1(call.invoice).amount

\* C2: for every invoice (any combination of line taxes, total_tax_amounts,
\* invoice level tax and gross amount) the tuple extractTaxInfo returns
\* satisfies amount = 0 => rate = "0".
C2_ZeroInvariant ==
  Extracted => (ret.amount = 0 => ret.rate = "0")

\* an invoice whose amount ends at 0 while Methods 1-4 had found a rate
C2_Witness ==
  /\ Extracted
  /\ BeforeFinalCheck(call.invoice).amount = 0
  /\ BeforeFinalCheck(call.invoice).rate # "0"
  /\ ret.amount = 0
  /\ ret.rate = "0"

\* C5: whenever an invoice has both line tax data and total_tax_amounts, and the
\* total_tax_amounts entries sum to a nonzero value, the returned amount is the
\* total_tax_amounts sum and not the line sum.
C5_AuthoritativeTotal ==
  (/\ Extracted
   /\ HasLineTaxData
   /\ Len(call.invoice.total_tax_amounts) > 0
   /\ SumAmounts(call.invoice.total_tax_amounts) # 0)
    => ret.amount = SumAmounts(call.invoice.total_tax_amounts)

\* the lines say 19.00, the total says 7.00, and 7.00 is returned
C5_Witness ==
  /\ Extracted
  /\ HasLineTaxData
  /\ LineItemSum = 1900
  /\ SumAmounts(call.invoice.total_tax_amounts) = 700
  /\ ret.amount = 700

\* the entries Method 1 visits, in the order it visits them: for each line its
\* tax_amounts, then its tax_rates; with the tax each contributes and the rate
\* and display name it carries
TaxAmountEntry(t) ==
  [legacy |-> FALSE,
   taxAmount |-> t.amount,
   hasRate |-> t.tax_rate.expanded /\ t.tax_rate.percentage # 0,
   rate |-> ToString(t.tax_rate.percentage),
   hasName |-> t.tax_rate.expanded /\ t.tax_rate.display_name # << >>,
   name |-> t.tax_rate.display_name]

TaxRateEntry(line, tax) ==
  [legacy |-> TRUE,
   taxAmount |-> (line.amount * tax.percentage) \div 100,
   hasRate |-> tax.percentage # 0,
   rate |-> ToString(tax.percentage),
   hasName |-> tax.display_name # << >>,
   name |-> tax.display_name]

RECURSIVE LineEntries(_)
LineEntries(lines) ==
  IF lines = << >> THEN << >>
  ELSE LET line == Head(lines)
       IN  ([k \in 1..Len(line.tax_amounts) |-> TaxAmountEntry(line.tax_amounts[k])]
              \o [k \in 1..Len(line.tax_rates) |-> TaxRateEntry(line, line.tax_rates[k])])
             \o LineEntries(Tail(lines))

CallEntries == LineEntries(call.invoice.lines)

Last(S) == CHOOSE k \in S : \A m \in S : m <= k

\* the entries with a tax amount > 0 that carry a rate / a display name
TaxedWithRate == {k \in 1..Len(CallEntries) : CallEntries[k].hasRate /\ CallEntries[k].taxAmount > 0}
TaxedWithName == {k \in 1..Len(CallEntries) : CallEntries[k].hasName /\ CallEntries[k].taxAmount > 0}

\* the same, where an entry of the older tax_rates array counts whatever tax it
\* contributes
CountedWithRate ==
  {k \in 1..Len(CallEntries) :
     CallEntries[k].hasRate /\ (CallEntries[k].legacy \/ CallEntries[k].taxAmount > 0)}
CountedWithName ==
  {k \in 1..Len(CallEntries) :
     CallEntries[k].hasName /\ (CallEntries[k].legacy \/ CallEntries[k].taxAmount > 0)}

\* C13 as stated: the rate and displayName taken from the line items are those
\* of the last line tax entry that carries them and whose own tax amount is > 0
\* (the initial "0" and null when there is none), so that an entry whose tax
\* amount is 0 never overwrites what an earlier entry gave.
C13_LastTaxedEntry ==
  Extracted =>
    /\ Method1(call.invoice).rate =
         IF TaxedWithRate = {} THEN "0" ELSE CallEntries[Last(TaxedWithRate)].rate
    /\ Method1(call.invoice).displayName =
         IF TaxedWithName = {} THEN << >> ELSE CallEntries[Last(TaxedWithName)].name

\* C13, amended: among the entries of line.tax_amounts only those with an
\* amount > 0 give their rate and displayName, and one with amount 0 never
\* overwrites them; an entry of the older line.tax_rates array gives its rate
\* whenever its percentage is nonzero and its displayName whenever it has one.
\* The rate and displayName taken from the line items are those of the last
\* such entry, and without total_tax_amounts the displayName is returned as
\* taken.
C13_LastCountedEntry ==
  Extracted =>
    LET rate == IF CountedWithRate = {} THEN "0"
                ELSE CallEntries[Last(CountedWithRate)].rate
        name == IF CountedWithName = {} THEN << >>
                ELSE CallEntries[Last(CountedWithName)].name
    IN  /\ Method1(call.invoice).rate = rate
        /\ Method1(call.invoice).displayName = name
        /\ call.invoice.total_tax_amounts = << >> => ret.displayName = name

\* 19.00 of "VAT" at 19 %, then an entry of 0.00 that names 21 % "EU RC"
C13_Witness ==
  /\ Extracted
  /\ Len(CallEntries) = 2
  /\ ~CallEntries[1].legacy /\ CallEntries[1].taxAmount = 1900
  /\ CallEntries[1].rate = "19" /\ CallEntries[1].name = NameVAT
  /\ ~CallEntries[2].legacy /\ CallEntries[2].taxAmount = 0
  /\ CallEntries[2].hasRate /\ CallEntries[2].rate = "21"
  /\ CallEntries[2].hasName /\ CallEntries[2].name = NameEuRc
  /\ call.invoice.total_tax_amounts = << >>
  /\ ret.rate = "19"
  /\ ret.displayName = NameVAT

\* the values after steps 1-2 and after steps 1-3
AfterStep2 == Method2(Method1(call.invoice), call.invoice)
AfterStep3 == Method3(AfterStep2, call.invoice)

\* the taxability reasons of the line entries, then of the total entries, in
\* the order the extractor meets them
RECURSIVE LineReasons(_)
LineReasons(lines) ==
  IF lines = << >> THEN << >>
  ELSE [k \in 1..Len(Head(lines).tax_amounts) |-> Head(lines).tax_amounts[k].taxability_reason]
         \o LineReasons(Tail(lines))

MetReasons ==
  LineReasons(call.invoice.lines)
    \o [k \in 1..Len(call.invoice.total_tax_amounts) |->
          call.invoice.total_tax_amounts[k].taxability_reason]

\* the taxabilityReason captured: the last one that is not empty
CapturedReason ==
  LET S == {k \in 1..Len(MetReasons) : MetReasons[k] # ""}
  IN  IF S = {} THEN "" ELSE MetReasons[Last(S)]

ZeroTotalForced ==
  /\ AfterStep2.amount = 0
  /\ CapturedReason \in {"not_collecting", "not_subject_to_tax"} => AfterStep2.rate = "0"
  /\ call.invoice.tax = 0 => (ret.amount = 0 /\ ret.rate = "0")

\* C14 as stated: for every invoice whose total_tax_amounts is non-null and
\* whose entries sum to exactly 0, step 2 forces the amount to 0 whatever the
\* line sum, and the rate to "0" when the captured taxabilityReason is
\* not_collecting or not_subject_to_tax.
C14_ZeroTotalNonNull ==
  (/\ Extracted
   /\ ~call.invoice.total_tax_amounts_is_null
   /\ SumAmounts(call.invoice.total_tax_amounts) = 0)
    => ZeroTotalForced

\* C14, amended: for every invoice whose total_tax_amounts is non-null, not
\* empty, and sums to exactly 0, step 2 forces the amount to 0 whatever the line
\* sum, and the rate to "0" when the captured taxabilityReason is not_collecting
\* or not_subject_to_tax; the returned amount is 0 and the returned rate "0"
\* when there is no invoice level tax for step 4 to fall back on.
C14_ZeroTotalNonEmpty ==
  (/\ Extracted
   /\ ~call.invoice.total_tax_amounts_is_null
   /\ call.invoice.total_tax_amounts # << >>
   /\ SumAmounts(call.invoice.total_tax_amounts) = 0)
    => ZeroTotalForced

\* the lines say 19.00 at 19 %, the total says 0.00 and not_collecting
C14_Witness ==
  /\ Extracted
  /\ LineItemSum = 1900
  /\ Method1(call.invoice).rate = "19"
  /\ call.invoice.total_tax_amounts # << >>
  /\ SumAmounts(call.invoice.total_tax_amounts) = 0
  /\ CapturedReason = "not_collecting"
  /\ call.invoice.tax = 0
  /\ ret.amount = 0
  /\ ret.rate = "0"

\* gross amount, and Math.round(taxAmount / netAmount * 100) as the integer r
\* with r - 1/2 <= 100 * taxAmount / netAmount < r + 1/2
Gross == PaidOrTotal(call.invoice)

Rounded(taxAmount, netAmount) ==
  CHOOSE r \in 0..1000 :
    /\ 2 * r * netAmount - netAmount <= 200 * taxAmount
    /\ 200 * taxAmount < 2 * r * netAmount + netAmount

\* C15: whenever after steps 1-2 the amount is > 0, the rate is "0" or unset,
\* and gross - amount > 0, the returned rate is round(amount / (gross - amount)
\* * 100) as a string; a nonzero rate that was already found is left unchanged.
C15_BackCalculation ==
  (Extracted /\ AfterStep2.amount > 0) =>
    IF AfterStep2.rate \in {"0", ""}
    THEN Gross - AfterStep2.amount > 0 =>
           ret.rate = ToString(Rounded(AfterStep2.amount, Gross - AfterStep2.amount))
    ELSE ret.rate = AfterStep2.rate

\* 38.00 of tax without a rate in a gross of 119.00: 46.91 rounds to 47
C15_Witness ==
  /\ Extracted
  /\ AfterStep2.amount = 3800
  /\ AfterStep2.rate = "0"
  /\ Gross = 11900
  /\ ret.rate = "47"

\* the strings a rate can be: the numerals
RateNumerals == {ToString(n) : n \in 0..1000}

\* C16: in steps 3 and 4, when gross - amount <= 0 the derivation is skipped
\* and the rate keeps its previous value; the rate is never NaN or Infinity.
C16_DenominatorGuard ==
  Extracted =>
    /\ (/\ AfterStep2.amount > 0
        /\ AfterStep2.rate \in {"0", ""}
        /\ Gross - AfterStep2.amount <= 0) => ret.rate = AfterStep2.rate
    /\ (/\ AfterStep3.amount = 0
        /\ call.invoice.tax > 0
        /\ Gross - call.invoice.tax <= 0) => ret.rate = AfterStep3.rate
    /\ ret.rate \in RateNumerals
    /\ ret.rate \notin {"NaN", "Infinity", "-Infinity"}

\* a total that is all tax, with no rate found: the rate stays "0"
C16_Witness ==
  /\ Extracted
  /\ AfterStep2.amount = 1900
  /\ AfterStep2.rate = "0"
  /\ Gross = 1900
  /\ ret.amount = 1900
  /\ ret.rate = "0"

\* C17: step 4 acts only if the amount is still 0 after steps 1-3 and the
\* invoice level tax is > 0; then the amount is the invoice level tax and the
\* rate is back-calculated as in step 3, under the same guard; when the amount
\* is already nonzero the invoice level tax is ignored.
C17_InvoiceLevelFallback ==
  Extracted =>
    /\ (AfterStep3.amount = 0 /\ call.invoice.tax > 0) =>
          /\ ret.amount = call.invoice.tax
          /\ Gross - call.invoice.tax > 0 =>
                ret.rate = ToString(Rounded(call.invoice.tax, Gross - call.invoice.tax))
    /\ AfterStep3.amount # 0 =>
          /\ ret.amount = AfterStep3.amount
          /\ ret.rate = AfterStep3.rate
    /\ (AfterStep3.amount = 0 /\ ~(call.invoice.tax > 0)) =>
          /\ ret.amount = 0
          /\ ret.rate = "0"

\* no tax found on the lines or in the totals, 19.00 of invoice level tax in
\* a gross of 119.00
C17_Witness ==
  /\ Extracted
  /\ AfterStep3.amount = 0
  /\ call.invoice.tax = 1900
  /\ Gross = 11900
  /\ ret.amount = 1900
  /\ ret.rate = "19"

\* C18: for an invoice with no line taxes, no total_tax_amounts and no invoice
\* level tax, the extractor returns amount 0, rate "0", no displayName and no
\* taxabilityReason, and raises no error.
C18_GracefulDegradation ==
  (/\ Extracted
   /\ ~HasLineTaxData
   /\ call.invoice.total_tax_amounts = << >>
   /\ call.invoice.tax = 0)
    => /\ ret.amount = 0
       /\ ret.rate = "0"
       /\ ret.displayName = << >>
       /\ ret.taxabilityReason = ""

\* the invoice with nothing about tax, total_tax_amounts null
C18_Witness ==
  /\ Extracted
  /\ call.invoice.lines = << >>
  /\ call.invoice.total_tax_amounts_is_null
  /\ call.invoice.tax = 0
  /\ ret = [amount |-> 0, rate |-> "0", displayName |-> << >>, taxabilityReason |-> ""]

-----------------------------------------------------------------------------
(* Properties of generateAccountingCSV, checked under Spec *)

Done == pc = "done"

\* the number a digit character stands for, and the number digits spell
DigitValue(ch) == CHOOSE d \in 0..9 : DigitChars[d + 1] = ch

RECURSIVE DigitsValue(_)
DigitsValue(s) ==
  IF s = << >> THEN 0
  ELSE 10 * DigitsValue(SubSeq(s, 1, Len(s) - 1)) + DigitValue(s[Len(s)])

IsDigit(ch) == \E d \in 0..9 : DigitChars[d + 1] = ch

\* the amount, in minor units, that a two-decimal field of a detail row shows
RowAmount(field) ==
  LET magnitude == DigitsValue(SelectSeq(field, IsDigit))
  IN  IF field # << >> /\ Head(field) = "-" THEN 0 - magnitude ELSE magnitude

RECURSIVE SumSeq(_)
SumSeq(s) == IF s = << >> THEN 0 ELSE Head(s) + SumSeq(Tail(s))

\* the detail row has the bucket's (customerCountry, taxRateDisplay, currency)
RowInBucket(row, bucket) ==
  /\ row.customerCountry = bucket.country
  /\ row.taxRate = bucket.taxRate
  /\ row.currency = bucket.currency

RowGross(row) == RowAmount(row.grossAmount)
RowTax(row) == RowAmount(row.taxAmount)
RowNet(row) == RowAmount(row.grossAmount) - RowAmount(row.taxAmount)
RowOne(row) == 1

\* the sum of F over the detail rows of a bucket
BucketRowsSum(bucket, F(_)) ==
  SumSeq([k \in 1..Len(csvData) |->
            IF RowInBucket(csvData[k], bucket) THEN F(csvData[k]) ELSE 0])

\* C3: after folding any sequence of invoices, each summary bucket's totalGross,
\* totalNet and totalTax are the sums of grossAmount, grossAmount - taxAmount
\* and taxAmount over exactly the detail rows with the bucket's
\* (customerCountry, taxRateDisplay, currency), and its invoiceCount is the
\* number of those rows.
C3_Additivity ==
  \A b \in 1..Len(countrySummary) :
     LET bucket == countrySummary[b]
     IN  /\ bucket.totalGross = BucketRowsSum(bucket, RowGross)
         /\ bucket.totalNet = BucketRowsSum(bucket, RowNet)
         /\ bucket.totalTax = BucketRowsSum(bucket, RowTax)
         /\ bucket.invoiceCount = BucketRowsSum(bucket, RowOne)

\* a finished run with a bucket of two taxed invoices and a second bucket
C3_Witness ==
  /\ Done
  /\ Len(countrySummary) >= 2
  /\ \E b \in 1..Len(countrySummary) :
        /\ countrySummary[b].invoiceCount = 2
        /\ countrySummary[b].totalTax = 4200
        /\ countrySummary[b].totalGross = 24200
        /\ countrySummary[b].totalNet = 20000

\* the list in another order
Permute(s, f) == [k \in 1..Len(s) |-> s[f[k]]]

\* the buckets of a summary, without their order
BucketsOf(summary) ==
  {[key |-> summary[k].key, taxInfo |-> summary[k].taxInfo,
    totalGross |-> summary[k].totalGross, totalNet |-> summary[k].totalNet,
    totalTax |-> summary[k].totalTax, invoiceCount |-> summary[k].invoiceCount] :
     k \in 1..Len(summary)}

\* C4: for any permutation of the list of invoices handed to
\* generateAccountingCSV the summary has the same keys and, for each key, the
\* same taxInfo, totalGross, totalNet, totalTax and invoiceCount.
C4_OrderIndependence ==
  Done =>
    \A f \in Permutations(1..Len(invoices)) :
       BucketsOf(SummaryOf(Permute(invoices, f))) = BucketsOf(countrySummary)

\* the summary buckets that have the (customerCountry, taxRateDisplay, currency)
\* of a detail row
BucketsOfRow(row) ==
  {b \in 1..Len(countrySummary) : RowInBucket(row, countrySummary[b])}

\* C12: after folding any sequence of invoices, two detail rows with the same
\* customerCountry and currency but different taxRateDisplay are accumulated in
\* two distinct summary buckets, and two rows share a bucket only if they agree
\* on customerCountry, taxRateDisplay and currency: every row has exactly one
\* bucket, the one with its three values and with the key they spell, and rows
\* that differ in one of the three have different buckets.
C12_NoMergeAcrossRates ==
  /\ \A i \in 1..Len(csvData) :
        /\ Cardinality(BucketsOfRow(csvData[i])) = 1
        /\ \A b \in BucketsOfRow(csvData[i]) :
              countrySummary[b].key =
                (((csvData[i].customerCountry \o "-") \o csvData[i].taxRate) \o "-")
                  \o csvData[i].currency
  /\ \A i, j \in 1..Len(csvData) :
        (\/ csvData[i].customerCountry # csvData[j].customerCountry
         \/ csvData[i].taxRate # csvData[j].taxRate
         \/ csvData[i].currency # csvData[j].currency)
          => BucketsOfRow(csvData[i]) \cap BucketsOfRow(csvData[j]) = {}
  /\ \A a, b \in 1..Len(countrySummary) :
        a # b => countrySummary[a].key # countrySummary[b].key

\* NL "0% (RC)" and NL "21% (OSS)" in EUR end in two buckets
C12_Witness ==
  /\ Done
  /\ Len(countrySummary) = 2
  /\ \E i, j \in 1..Len(csvData) :
        /\ csvData[i].customerCountry = "NL" /\ csvData[j].customerCountry = "NL"
        /\ csvData[i].currency = "EUR" /\ csvData[j].currency = "EUR"
        /\ csvData[i].taxRate = "0% (RC)" /\ csvData[j].taxRate = "21% (OSS)"
        /\ BucketsOfRow(csvData[i]) # BucketsOfRow(csvData[j])

\* C19: generateAccountingCSV produces exactly one detail row per input
\* invoice, and the i-th detail row is derived from the i-th invoice: after
\* every pass of the loop there is one row for each invoice processed, in the
\* order of the input, and the detailed file has their lines in that order.
C19_RowsOrderedAsInput ==
  /\ Len(csvData) = idx
  /\ \A i \in 1..Len(csvData) :
        /\ csvData[i].invoiceNumber = invoices[i].number
        /\ csvData[i] = Processed(companyCountry, invoices[i]).row
  /\ Done =>
        /\ Len(csvData) = Len(invoices)
        /\ Len(csvContent) = Len(invoices)
        /\ \A i \in 1..Len(invoices) :
              /\ csvContent[i][1] = invoices[i].number
              /\ csvContent[i] = DetailLine(Processed(companyCountry, invoices[i]).row)

\* three different invoices, written in their order
C19_Witness ==
  /\ Done
  /\ Len(invoices) = 3
  /\ invoices[1].number # invoices[2].number
  /\ invoices[2].number # invoices[3].number
  /\ invoices[1].number # invoices[3].number
  /\ \A i \in 1..3 : csvContent[i][1] = invoices[i].number

\* the key of a detail row, and the keys of a list of rows in the order of
\* their first occurrence
RowKey(row) == (((row.customerCountry \o "-") \o row.taxRate) \o "-") \o row.currency

FirstOccurrences(rows) ==
  LET firsts == {i \in 1..Len(rows) : \A j \in 1..(i - 1) : RowKey(rows[j]) # RowKey(rows[i])}
      RECURSIVE Ascending(_)
      Ascending(S) ==
        IF S = {} THEN << >>
        ELSE LET m == CHOOSE x \in S : \A y \in S : x <= y
             IN  <<RowKey(rows[m])>> \o Ascending(S \ {m})
  IN  Ascending(firsts)

BucketKeys(summary) == [k \in 1..Len(summary) |-> summary[k].key]

\* what every step of generateAccountingCSV preserves
SummaryOrderStep ==
  /\ \A k \in 1..Len(countrySummary) :
        /\ k <= Len(countrySummary')
        /\ countrySummary'[k].key = countrySummary[k].key
  /\ BucketKeys(countrySummary') = FirstOccurrences(csvData')
  /\ pc' = "done" =>
        /\ Len(summaryContent') = Len(countrySummary')
        /\ \A k \in 1..Len(summaryContent') :
              (((summaryContent'[k][1] \o "-") \o summaryContent'[k][2]) \o "-")
                  \o summaryContent'[k][3]
                = FirstOccurrences(csvData')[k]

\* C20: the summary buckets are emitted in the order in which their keys first
\* occur in the invoice sequence; a later row for an existing key never moves
\* that bucket or creates a second bucket for the key: every step leaves each
\* bucket at its position, keeps the bucket keys equal to the row keys in order
\* of first occurrence, and the summary file is written in that order.
C20_FirstOccurrenceOrder == [][SummaryOrderStep]_vars

\* keys A, B, A: two buckets, A before B, the second A counted in the first
C20_Witness ==
  /\ Done
  /\ Len(csvData) = 3
  /\ RowKey(csvData[1]) # RowKey(csvData[2])
  /\ RowKey(csvData[3]) = RowKey(csvData[1])
  /\ Len(summaryContent) = 2
  /\ countrySummary[1].key = RowKey(csvData[1])
  /\ countrySummary[1].invoiceCount = 2
  /\ summaryContent[1][8] = "2"
  /\ summaryContent[2][2] = csvData[2].taxRate

\* C24: after folding any sequence of invoices, every detail row accumulated
\* into a summary bucket has the taxInfo recorded on that bucket, which is set
\* from the first row of the key only.
C24_BucketCategory ==
  \A i \in 1..Len(csvData) :
     \A b \in 1..Len(countrySummary) :
        countrySummary[b].key = RowKey(csvData[i])
          => countrySummary[b].taxInfo = csvData[i].taxInfo

\* a bucket of Reverse Charge that holds the rows of two different invoices
C24_Witness ==
  /\ Done
  /\ \E i, j \in 1..Len(csvData) :
        /\ csvData[i].invoiceNumber # csvData[j].invoiceNumber
        /\ RowKey(csvData[i]) = RowKey(csvData[j])
        /\ csvData[i].taxInfo = "Reverse Charge"
        /\ \E b \in 1..Len(countrySummary) :
              /\ countrySummary[b].key = RowKey(csvData[i])
              /\ countrySummary[b].invoiceCount >= 2
              /\ countrySummary[b].taxInfo = "Reverse Charge"

\* C25: after every step of the fold in generateAccountingCSV, the sum of
\* invoiceCount over all summary buckets is the number of invoices processed so
\* far: each invoice is counted in exactly one bucket.
C25_CountConservation ==
  /\ SumSeq([b \in 1..Len(countrySummary) |-> countrySummary[b].invoiceCount]) = idx
  /\ \A i \in 1..Len(csvData) :
        Cardinality({b \in 1..Len(countrySummary) :
                       countrySummary[b].key = RowKey(csvData[i])}) = 1

\* three invoices processed, two of them counted in the same bucket
C25_Witness ==
  /\ pc = "loop"
  /\ idx = 3
  /\ Len(countrySummary) = 2
  /\ \E b \in 1..2 : countrySummary[b].invoiceCount = 2

\* C21: the company country used to classify every invoice of a run is the
\* caller-supplied one, the companyCountry stored with the selected profile.
C21_CompanyCountryOfProfile ==
  /\ (pc = "loop" /\ idx < Len(invoices)) => companyCountry = profile.companyCountry
  /\ \A i \in 1..Len(csvData) :
        csvData[i] = Processed(profile.companyCountry, invoices[i]).row

-----------------------------------------------------------------------------
(* Properties of createProfile, checked under SpecProfile *)

\* the key is not empty and its first three characters are s, k, _
KeyStartsWithSk(key) ==
  Len(key) >= 3 /\ key[1] = "s" /\ key[2] = "k" /\ key[3] = "_"

CreateProfileStep ==
  /\ \A p \in config' \ config : KeyStartsWithSk(p.secretKey)
  /\ \A p \in configFile' \ configFile : KeyStartsWithSk(p.secretKey)
  /\ pc' = "returned" =>
        /\ KeyStartsWithSk(profile'.secretKey)
        /\ profile' \in config'
  /\ (pc = "secretKey" /\ ~KeyStartsWithSk(secretKey')) =>
        /\ pc' = "createProfile"
        /\ UNCHANGED <<config, configFile, profile>>

\* C22: over any sequence of answers to the createProfile prompts, a profile
\* is stored in the configuration and returned only if its secret key is
\* non-empty and starts with "sk_"; an invalid key restarts profile creation
\* without saving anything.
C22_KeyValidation == [][CreateProfileStep]_vars

\* a profile created over an existing one of the same name, written and returned
C22_Witness ==
  /\ pc = "returned"
  /\ profile.secretKey = <<"s", "k", "_">>
  /\ profile.name = "My Business"
  /\ profile \in configFile
  /\ Cardinality(configFile) = 2

-----------------------------------------------------------------------------
(* Properties of getStripeInvoices, checked under SpecFetch *)

\* the data of the pages received, one after the other
RECURSIVE PagesData(_)
PagesData(pages) ==
  IF pages = << >> THEN << >> ELSE Head(pages).data \o PagesData(Tail(pages))

\* C26: when no request fails, getStripeInvoices stops exactly at the first
\* response with has_more = false and returns the concatenation, in request
\* order, of the data of every page it received, nothing dropped and no page
\* added twice (which is the list Stripe holds); when a request fails the error
\* is thrown on and no partial list is returned.
C26_PaginationComplete ==
  /\ pc = "getStripeInvoices" =>
        /\ fetched = PagesData(responses)
        /\ \A k \in 1..(Len(responses) - 1) : responses[k].has_more
  /\ pc = "returned" =>
        /\ Len(responses) = Len(requests)
        /\ Len(responses) >= 1
        /\ ~responses[Len(responses)].has_more
        /\ \A k \in 1..(Len(responses) - 1) : responses[k].has_more
        /\ ret = [value |-> PagesData(responses)]
        /\ ret.value = serverInvoices
  /\ pc = "thrown" =>
        /\ Len(requests) = Len(responses) + 1
        /\ ret = [thrown |-> TRUE]

\* five invoices come in three pages and are returned in their order
C26_Witness ==
  /\ pc = "returned"
  /\ Len(serverInvoices) = 5
  /\ Len(responses) = 3
  /\ Len(responses[3].data) = 1
  /\ ret.value = serverInvoices

-----------------------------------------------------------------------------
(* Properties of the download of main, checked under SpecDownload *)

\* the number of attempts that gave true
Successes == Cardinality({k \in 1..Len(attempts) : attempts[k].success})

\* C28: when the download is confirmed, downloadStripeInvoice is attempted
\* exactly once for each fetched invoice, one after the other in list order; a
\* failed or PDF-less invoice yields false without throwing and does not
\* prevent the remaining attempts; when the loop ends downloaded + failed is
\* the number of fetched invoices.
C28_DownloadAccounting ==
  /\ Len(attempts) <= Len(stripeInvoices)
  /\ \A k \in 1..Len(attempts) :
        /\ attempts[k].invoice = stripeInvoices[k]
        /\ attempts[k].success =
             (attempts[k].invoice.invoice_pdf /\ attempts[k].outcome = "ok")
  /\ downloaded = Successes
  /\ failed = Len(attempts) - Successes
  /\ pc = "downloadsDone" =>
        /\ Len(attempts) = Len(stripeInvoices)
        /\ downloaded + failed = Len(stripeInvoices)
  /\ pc \in {"confirmDownload", "downloadCancelled"} => attempts = << >>

\* three invoices: the first has no PDF, the second fails, the third succeeds
C28_Witness ==
  /\ pc = "downloadsDone"
  /\ Len(stripeInvoices) = 3
  /\ ~stripeInvoices[1].invoice_pdf
  /\ ~attempts[1].success
  /\ stripeInvoices[2].invoice_pdf
  /\ attempts[2].outcome = "fetchRejects"
  /\ ~attempts[2].success
  /\ attempts[3].success
  /\ downloaded = 1
  /\ failed = 2

====
